---------------------------- MODULE Spec2Model ----------------------------
(***************************************************************************)
(* Model of scripts/export_cert.py: the .env loader, the configuration     *)
(* check, run() and main(), together with the part of the environment the  *)
(* script reads and writes (the two keychains, the keychain search list,   *)
(* the bundle file and the base64 text file).                              *)
(*                                                                         *)
(* Text is a sequence of tokens.  A token is one of the characters the     *)
(* loader treats specially (space, '#', '=', the two quote characters) or  *)
(* an indivisible run of ordinary characters such as "APPLE_CERT_HASH".    *)
(* Bytes are the integers 0..255.                                          *)
(*                                                                         *)
(* The external `security` utility is the environment: every invocation    *)
(* returns a status chosen by the environment, and has its effect only     *)
(* when that status is 0.                                                  *)
(***************************************************************************)
EXTENDS Integers, Sequences, FiniteSets, TLC

VARIABLES
    envExists,      \* os.path.exists(ENV_PATH)
    envFile,        \* the lines of the .env file
    env_vars,       \* the dict the loader fills
    pc,             \* position of the process in the script
    exitStatus,     \* -1 while running, else the process exit status
    rc,             \* returncode of the latest run() call (-1: none yet);
                    \* after line 101 it is result.returncode
    verify_result,  \* returncode held by `verify_result` (line 127)
    content,        \* bytes read from the bundle (line 141)
    log,            \* argv of every command handed to subprocess.run
    prepFailed,     \* a command of lines 56-63 returned non-zero
    tempKC,         \* temp_export.keychain exists
    verifyKC,       \* verify.keychain exists
    searchList,     \* the user keychain search list
    p12,            \* scripts/certificate.p12: NoFile or its bytes
    b64,            \* scripts/certificate_base64.txt: Absent or its text
    start,          \* keychains and files as they were when the run began
    runs            \* number of the current invocation of the script

vars == << envExists, envFile, env_vars, pc, exitStatus, rc, verify_result,
           content, log, prepFailed, tempKC, verifyKC,
           searchList, p12, b64, start, runs >>

---------------------------------------------------------------------------
(* Bounds *)

MaxRuns == 2        \* successive invocations of the script
MaxBytes == 3       \* length of the sample the export tool's output is cut from
MaxLineLen == 6     \* tokens of a line in the loader specification

---------------------------------------------------------------------------
(* Values *)

None == << "None" >>            \* Python's None (no token is "None")
Absent == << "absent" >>        \* a text file that does not exist
NoFile == << -1 >>              \* a binary file that does not exist (-1 is no byte)

SP == " "
HASHMARK == "#"
EQ == "="
DQ == "\""
SQ == "'"
Quotes == {DQ, SQ}

TEMP_KEYCHAIN == << "temp_export.keychain" >>
VERIFY_KEYCHAIN == << "verify.keychain" >>
LOGIN_KEYCHAIN == << "login.keychain" >>
OUTPUT_P12 == << "scripts/certificate.p12" >>
OUTPUT_B64 == << "scripts/certificate_base64.txt" >>

KEY_HASH == << "APPLE_CERT_HASH" >>
KEY_EXPORT_PASS == << "APPLE_CERT_EXPORT_PASS" >>
KEY_TEMP_PASS == << "APPLE_TEMP_KEYCHAIN_PASS" >>

---------------------------------------------------------------------------
(* The .env loader, lines 10-24 *)

\* str.strip(chars): drop every leading and every trailing token in chars
RECURSIVE LStrip(_, _)
LStrip(s, chars) ==
    IF s # << >> /\ Head(s) \in chars THEN LStrip(Tail(s), chars) ELSE s

RECURSIVE RStrip(_, _)
RStrip(s, chars) ==
    IF s # << >> /\ s[Len(s)] \in chars
    THEN RStrip(SubSeq(s, 1, Len(s) - 1), chars)
    ELSE s

Strip(s, chars) == RStrip(LStrip(s, chars), chars)

\* position of the first "=" of s, 0 when there is none
FirstEq(s) ==
    IF \E i \in 1..Len(s) : s[i] = EQ
    THEN CHOOSE i \in 1..Len(s) : s[i] = EQ /\ \A j \in 1..(i - 1) : s[j] # EQ
    ELSE 0

\* re.match(r"^([^=]+)=(.*)$", line): a non-empty key without "=", then "="
Matches(line) == FirstEq(line) > 1
MatchKey(line) == SubSeq(line, 1, FirstEq(line) - 1)
MatchVal(line) == SubSeq(line, FirstEq(line) + 1, Len(line))

\* val.strip("\"'") of line 21
StripQuotes(val) == Strip(val, Quotes)

\* dict assignment env_vars[key] = val
Put(d, key, val) ==
    [k \in DOMAIN d \cup {key} |-> IF k = key THEN val ELSE d[k]]

\* one iteration of the loop of lines 13-22
LoadLine(d, raw) ==
    LET line == Strip(raw, {SP}) IN
    IF line = << >> \/ Head(line) = HASHMARK THEN d
    ELSE IF Matches(line)
         THEN Put(d, MatchKey(line), StripQuotes(MatchVal(line)))
         ELSE d

RECURSIVE LoadFrom(_, _)
LoadFrom(d, lines) ==
    IF lines = << >> THEN d
    ELSE LoadFrom(LoadLine(d, Head(lines)), Tail(lines))

EmptyDict == [k \in {} |-> << >>]

LoadEnv(exists, lines) == IF exists THEN LoadFrom(EmptyDict, lines) ELSE EmptyDict

\* dict.get(key): None when the key is not there
Get(d, key) == IF key \in DOMAIN d THEN d[key] ELSE None

\* Python truthiness of an Optional[str]: `not x`
Falsy(x) == x = None \/ x = << >>

TARGET_HASH == Get(env_vars, KEY_HASH)
EXPORT_PASS == Get(env_vars, KEY_EXPORT_PASS)
TEMP_PASS == Get(env_vars, KEY_TEMP_PASS)

---------------------------------------------------------------------------
(* base64.b64encode, line 146 *)

B64Alphabet ==
    << "A","B","C","D","E","F","G","H","I","J","K","L","M","N","O","P",
       "Q","R","S","T","U","V","W","X","Y","Z","a","b","c","d","e","f",
       "g","h","i","j","k","l","m","n","o","p","q","r","s","t","u","v",
       "w","x","y","z","0","1","2","3","4","5","6","7","8","9","+","/" >>

B64Pad == "="

Sextet(n) == B64Alphabet[(n % 64) + 1]

\* a full group of three bytes gives four characters
EncodeGroup(b1, b2, b3) ==
    LET n == b1 * 65536 + b2 * 256 + b3 IN
    << Sextet(n \div 262144), Sextet(n \div 4096), Sextet(n \div 64), Sextet(n) >>

\* Faulty variant of EncodeTail: the "=" padding is left out
EncodeTailNoPad(bytes) ==
    IF Len(bytes) = 1
    THEN SubSeq(EncodeGroup(bytes[1], 0, 0), 1, 2)
    ELSE SubSeq(EncodeGroup(bytes[1], bytes[2], 0), 1, 3)

\* the last group, of one or two bytes, is zero-filled and padded with "="
EncodeTail(bytes) ==
    IF Len(bytes) = 1
    THEN SubSeq(EncodeGroup(bytes[1], 0, 0), 1, 2) \o << B64Pad, B64Pad >>
    ELSE SubSeq(EncodeGroup(bytes[1], bytes[2], 0), 1, 3) \o << B64Pad >>

RECURSIVE B64Encode(_)
B64Encode(bytes) ==
    IF bytes = << >> THEN << >>
    ELSE IF Len(bytes) >= 3
         THEN EncodeGroup(bytes[1], bytes[2], bytes[3])
              \o B64Encode(SubSeq(bytes, 4, Len(bytes)))
         ELSE EncodeTail(bytes)

---------------------------------------------------------------------------
(* The environment *)

Status == {0, 1}                \* returncode of an external command

SECURITY == << "security" >>

\* bytes the export tool may leave in the bundle: the slices of a sample
SampleBytes == [i \in 1..MaxBytes |-> (i * 89 + 166) % 256]

Contents ==
    { SubSeq(SampleBytes, i, j) : i \in 1..(MaxBytes + 1), j \in 0..MaxBytes }

\* .env files the runs are started with
L_HASH == << "APPLE_CERT_HASH", EQ, "abc123" >>
L_HASH_QUOTED == << "APPLE_CERT_HASH", EQ, DQ, "abc123", DQ >>
L_HASH_EMPTY == << "APPLE_CERT_HASH", EQ >>
L_PASS == << "APPLE_CERT_EXPORT_PASS", EQ, "secret" >>
L_PASS_QUOTED == << SP, "APPLE_CERT_EXPORT_PASS", EQ, SQ, "secret", SQ, SP >>
L_TEMP == << "APPLE_TEMP_KEYCHAIN_PASS", EQ, "temp" >>
L_TEMP_EMPTY == << "APPLE_TEMP_KEYCHAIN_PASS", EQ >>
L_COMMENT == << HASHMARK, SP, "APPLE_CERT_EXPORT_PASS", EQ, "secret" >>
L_BLANK == << SP >>

EnvFiles ==
    { << L_HASH, L_PASS, L_TEMP >>,
      << L_COMMENT, L_BLANK, L_HASH_QUOTED, L_PASS_QUOTED, L_TEMP_EMPTY >>,
      << L_HASH, L_PASS >>,
      << L_HASH, L_COMMENT, L_TEMP >>,
      << L_PASS, L_TEMP >>,
      << L_HASH_EMPTY, L_PASS, L_TEMP >>,
      << >> }

Snapshot == [tempKC |-> tempKC, verifyKC |-> verifyKC, p12 |-> p12, b64 |-> b64]

\* what the first run may find: nothing, or what earlier use of the script left
Clean == [tempKC |-> FALSE, verifyKC |-> FALSE, p12 |-> NoFile, b64 |-> Absent]

Leftover == [tempKC |-> TRUE, verifyKC |-> TRUE, p12 |-> SampleBytes,
             b64 |-> B64Encode(SampleBytes)]

config == << envExists, envFile >>
files == << p12, b64 >>
keychains == << tempKC, verifyKC, searchList >>
results == << verify_result, content >>

---------------------------------------------------------------------------
(* run(), lines 41-46 *)

\* ' '.join(cmd) of line 42 raises TypeError on an argument that is None
RunRaises(argv) == \E i \in 1..Len(argv) : argv[i] = None

\* the uncaught exception ends the process with status 1
Raise ==
    /\ pc' = "exit"
    /\ exitStatus' = 1
    /\ UNCHANGED << config, env_vars, rc, results, log, prepFailed, keychains,
                    files, start, runs >>

\* subprocess.run(cmd), line 43: the command runs and returns a status
Run(argv, status) ==
    /\ log' = Append(log, argv)
    /\ rc' = status

---------------------------------------------------------------------------
(* Module level, lines 8-39 *)

LoadConfig ==
    /\ pc = "load"
    /\ env_vars' = LoadEnv(envExists, envFile)
    /\ pc' = "check_config"
    /\ UNCHANGED << config, exitStatus, rc, results, log, prepFailed,
                    keychains, files, start, runs >>

\* Faulty variant of CheckConfig: `and` in place of `or` at line 33
CheckConfigAnd ==
    /\ pc = "check_config"
    /\ IF Falsy(TARGET_HASH) /\ Falsy(EXPORT_PASS)
       THEN pc' = "exit" /\ exitStatus' = 1
       ELSE pc' = "clean_temp" /\ UNCHANGED exitStatus
    /\ UNCHANGED << config, env_vars, rc, results, log, prepFailed, keychains,
                    files, start, runs >>

CheckConfig ==
    /\ pc = "check_config"
    /\ IF Falsy(TARGET_HASH) \/ Falsy(EXPORT_PASS)
       THEN pc' = "exit" /\ exitStatus' = 1
       ELSE pc' = "clean_temp" /\ UNCHANGED exitStatus
    /\ UNCHANGED << config, env_vars, rc, results, log, prepFailed, keychains,
                    files, start, runs >>

---------------------------------------------------------------------------
(* main(): cleaning up and preparing, lines 49-63 *)

CleanTemp ==
    /\ pc = "clean_temp"
    /\ IF tempKC
       THEN \E status \in Status :
               /\ Run(<< SECURITY, << "delete-keychain" >>, TEMP_KEYCHAIN >>, status)
               /\ tempKC' = (status # 0)
       ELSE UNCHANGED << log, rc, tempKC >>
    /\ pc' = "clean_p12"
    /\ UNCHANGED << config, env_vars, exitStatus, results, prepFailed,
                    verifyKC, searchList, files, start, runs >>

\* Faulty variant of CleanP12: the stale bundle is left in place
CleanP12Skip ==
    /\ pc = "clean_p12"
    /\ pc' = "create_temp"
    /\ UNCHANGED << config, env_vars, exitStatus, rc, results, log, prepFailed,
                    keychains, files, start, runs >>

CleanP12 ==
    /\ pc = "clean_p12"
    /\ p12' = NoFile
    /\ pc' = "create_temp"
    /\ UNCHANGED << config, env_vars, exitStatus, rc, results, log, prepFailed,
                    keychains, b64, start, runs >>

\* Faulty variant of CreateTemp: a non-zero status is treated as fatal
CreateTempFatal ==
    /\ pc = "create_temp"
    /\ LET argv == << SECURITY, << "create-keychain" >>, << "-p" >>,
                      TEMP_PASS, TEMP_KEYCHAIN >> IN
       IF RunRaises(argv) THEN Raise
       ELSE \E status \in Status :
               /\ Run(argv, status)
               /\ tempKC' = (tempKC \/ status = 0)
               /\ prepFailed' = (prepFailed \/ status # 0)
               /\ IF status # 0
                  THEN pc' = "exit" /\ exitStatus' = 1
                  ELSE pc' = "set_temp" /\ UNCHANGED exitStatus
               /\ UNCHANGED << config, env_vars, results, verifyKC,
                               searchList, files, start, runs >>

CreateTemp ==
    /\ pc = "create_temp"
    /\ LET argv == << SECURITY, << "create-keychain" >>, << "-p" >>,
                      TEMP_PASS, TEMP_KEYCHAIN >> IN
       IF RunRaises(argv) THEN Raise
       ELSE \E status \in Status :
               /\ Run(argv, status)
               /\ tempKC' = (tempKC \/ status = 0)
               /\ prepFailed' = (prepFailed \/ status # 0)
               /\ pc' = "set_temp"
               /\ UNCHANGED << config, env_vars, exitStatus, results, verifyKC,
                               searchList, files, start, runs >>

SetTempSettings ==
    /\ pc = "set_temp"
    /\ \E status \in Status :
          /\ Run(<< SECURITY, << "set-keychain-settings" >>, TEMP_KEYCHAIN >>, status)
          /\ prepFailed' = (prepFailed \/ status # 0)
    /\ pc' = "unlock_temp"
    /\ UNCHANGED << config, env_vars, exitStatus, results, keychains, files,
                    start, runs >>

UnlockTemp ==
    /\ pc = "unlock_temp"
    /\ LET argv == << SECURITY, << "unlock-keychain" >>, << "-p" >>,
                      TEMP_PASS, TEMP_KEYCHAIN >> IN
       IF RunRaises(argv) THEN Raise
       ELSE \E status \in Status :
               /\ Run(argv, status)
               /\ prepFailed' = (prepFailed \/ status # 0)
               /\ pc' = "list_keychains"
               /\ UNCHANGED << config, env_vars, exitStatus, results,
                               keychains, files, start, runs >>

ListKeychains ==
    /\ pc = "list_keychains"
    /\ \E status \in Status :
          /\ Run(<< SECURITY, << "list-keychains" >>, << "-d" >>, << "user" >>,
                    << "-s" >>, TEMP_KEYCHAIN, LOGIN_KEYCHAIN >>, status)
          /\ prepFailed' = (prepFailed \/ status # 0)
          /\ searchList' = IF status = 0
                           THEN << TEMP_KEYCHAIN, LOGIN_KEYCHAIN >>
                           ELSE searchList
    /\ pc' = "export1"
    /\ UNCHANGED << config, env_vars, exitStatus, results, tempKC, verifyKC,
                    files, start, runs >>

---------------------------------------------------------------------------
(* main(): exporting, lines 82-109 *)

CMD == << SECURITY, << "export" >>, << "-k" >>, LOGIN_KEYCHAIN,
          << "-t" >>, << "identities" >>, << "-f" >>, << "pkcs12" >>,
          << "-P" >>, EXPORT_PASS, << "-o" >>, OUTPUT_P12 >>

\* `security export -o` leaves the path as it is or writes a file there, which
\* may be empty; its status is not tied to what it wrote
Export(here, next) ==
    /\ pc = here
    /\ IF RunRaises(CMD) THEN Raise
       ELSE \E status \in Status, after \in Contents \cup {p12} :
               /\ Run(CMD, status)
               /\ p12' = after
               /\ pc' = next
               /\ UNCHANGED << config, env_vars, exitStatus, verify_result,
                               content, prepFailed, keychains, b64, start, runs >>

Export1 == Export("export1", "export2")     \* line 98

Export2 == Export("export2", "check_p12")   \* line 101

\* os.path.exists(OUTPUT_P12) and os.path.getsize(OUTPUT_P12) > 0
BundleUsable == p12 # NoFile /\ Len(p12) > 0

\* Faulty variant of CheckP12: the size of the file is not looked at
CheckP12Exists ==
    /\ pc = "check_p12"
    /\ IF p12 # NoFile
       THEN pc' = "clean_verify" /\ UNCHANGED exitStatus
       ELSE pc' = "exit" /\ exitStatus' = 1
    /\ UNCHANGED << config, env_vars, rc, results, log, prepFailed, keychains,
                    files, start, runs >>

CheckP12 ==
    /\ pc = "check_p12"
    /\ IF BundleUsable
       THEN pc' = "clean_verify" /\ UNCHANGED exitStatus
       ELSE pc' = "exit" /\ exitStatus' = 1
    /\ UNCHANGED << config, env_vars, rc, results, log, prepFailed, keychains,
                    files, start, runs >>

---------------------------------------------------------------------------
(* main(): verifying, lines 112-135 *)

CleanVerify ==
    /\ pc = "clean_verify"
    /\ IF verifyKC
       THEN \E status \in Status :
               /\ Run(<< SECURITY, << "delete-keychain" >>, VERIFY_KEYCHAIN >>, status)
               /\ verifyKC' = (status # 0)
       ELSE UNCHANGED << log, rc, verifyKC >>
    /\ pc' = "create_verify"
    /\ UNCHANGED << config, env_vars, exitStatus, results, prepFailed, tempKC,
                    searchList, files, start, runs >>

CreateVerify ==
    /\ pc = "create_verify"
    /\ \E status \in Status :
          /\ Run(<< SECURITY, << "create-keychain" >>, << "-p" >>, << "verify" >>,
                    VERIFY_KEYCHAIN >>, status)
          /\ verifyKC' = (verifyKC \/ status = 0)
    /\ pc' = "set_verify"
    /\ UNCHANGED << config, env_vars, exitStatus, results, prepFailed, tempKC,
                    searchList, files, start, runs >>

SetVerifySettings ==
    /\ pc = "set_verify"
    /\ \E status \in Status :
          Run(<< SECURITY, << "set-keychain-settings" >>, VERIFY_KEYCHAIN >>, status)
    /\ pc' = "import_verify"
    /\ UNCHANGED << config, env_vars, exitStatus, results, prepFailed,
                    keychains, files, start, runs >>

verify_cmd == << SECURITY, << "import" >>, OUTPUT_P12, << "-k" >>, VERIFY_KEYCHAIN,
                 << "-P" >>, EXPORT_PASS, << "-T" >>, << "/usr/bin/codesign" >> >>

ImportVerify ==
    /\ pc = "import_verify"
    /\ IF RunRaises(verify_cmd) THEN Raise
       ELSE \E status \in Status :
               /\ Run(verify_cmd, status)
               /\ verify_result' = status
               /\ pc' = "delete_verify"
               /\ UNCHANGED << config, env_vars, exitStatus, content,
                               prepFailed, keychains, files, start, runs >>

\* Faulty variant of DeleteVerify: the cleanup is skipped when the import failed
DeleteVerifyOnSuccess ==
    /\ pc = "delete_verify"
    /\ IF verify_result = 0
       THEN \E status \in Status :
               /\ Run(<< SECURITY, << "delete-keychain" >>, VERIFY_KEYCHAIN >>, status)
               /\ verifyKC' = (verifyKC /\ status # 0)
       ELSE UNCHANGED << log, rc, verifyKC >>
    /\ pc' = "check_verify"
    /\ UNCHANGED << config, env_vars, exitStatus, results, prepFailed, tempKC,
                    searchList, files, start, runs >>

DeleteVerify ==
    /\ pc = "delete_verify"
    /\ \E status \in Status :
          /\ Run(<< SECURITY, << "delete-keychain" >>, VERIFY_KEYCHAIN >>, status)
          /\ verifyKC' = (verifyKC /\ status # 0)
    /\ pc' = "check_verify"
    /\ UNCHANGED << config, env_vars, exitStatus, results, prepFailed, tempKC,
                    searchList, files, start, runs >>

CheckVerify ==
    /\ pc = "check_verify"
    /\ IF verify_result # 0
       THEN pc' = "exit" /\ exitStatus' = 1
       ELSE pc' = "read_p12" /\ UNCHANGED exitStatus
    /\ UNCHANGED << config, env_vars, rc, results, log, prepFailed, keychains,
                    files, start, runs >>

---------------------------------------------------------------------------
(* main(): encoding, lines 140-148, and the end of the script *)

ReadP12 ==
    /\ pc = "read_p12"
    /\ p12 # NoFile
    /\ content' = p12
    /\ pc' = "write_b64"
    /\ UNCHANGED << config, env_vars, exitStatus, rc, verify_result,
                    log, prepFailed, keychains, files, start, runs >>

WriteB64 ==
    /\ pc = "write_b64"
    /\ b64' = B64Encode(content)
    /\ pc' = "exit"
    /\ exitStatus' = 0
    /\ UNCHANGED << config, env_vars, rc, results, log, prepFailed, keychains,
                    p12, start, runs >>

\* the script is invoked again, with the same .env file, where the previous
\* invocation left the keychains and the files
Restart ==
    /\ pc = "exit"
    /\ runs < MaxRuns
    /\ runs' = runs + 1
    /\ pc' = "load"
    /\ exitStatus' = -1
    /\ rc' = -1
    /\ verify_result' = -1
    /\ content' = << >>
    /\ log' = << >>
    /\ prepFailed' = FALSE
    /\ env_vars' = EmptyDict
    /\ start' = Snapshot
    /\ UNCHANGED << config, keychains, files >>

---------------------------------------------------------------------------
(* Specifications *)

Init ==
    /\ envExists \in BOOLEAN
    /\ envFile \in EnvFiles
    /\ envExists \/ envFile = << >>
    /\ env_vars = EmptyDict
    /\ pc = "load"
    /\ exitStatus = -1
    /\ rc = -1
    /\ verify_result = -1
    /\ content = << >>
    /\ log = << >>
    /\ prepFailed = FALSE
    /\ start \in {Clean, Leftover}
    /\ tempKC = start.tempKC
    /\ verifyKC = start.verifyKC
    /\ searchList = << LOGIN_KEYCHAIN >>
    /\ p12 = start.p12
    /\ b64 = start.b64
    /\ runs = 1

Next ==
    \/ LoadConfig
    \/ CheckConfig
    \/ CleanTemp
    \/ CleanP12
    \/ CreateTemp
    \/ SetTempSettings
    \/ UnlockTemp
    \/ ListKeychains
    \/ Export1
    \/ Export2
    \/ CheckP12
    \/ CleanVerify
    \/ CreateVerify
    \/ SetVerifySettings
    \/ ImportVerify
    \/ DeleteVerify
    \/ CheckVerify
    \/ ReadP12
    \/ WriteB64
    \/ Restart

Spec == Init /\ [][Next]_vars

\* the loader alone, on every one-line .env file of at most MaxLineLen tokens
Tokens == {"KEY", EQ, DQ, SQ, "v", SP, HASHMARK}

Lines == UNION { [1..n -> Tokens] : n \in 0..MaxLineLen }

LoaderInit ==
    /\ envExists = TRUE
    /\ envFile \in { << line >> : line \in Lines }
    /\ env_vars = EmptyDict
    /\ pc = "load"
    /\ exitStatus = -1
    /\ rc = -1
    /\ verify_result = -1
    /\ content = << >>
    /\ log = << >>
    /\ prepFailed = FALSE
    /\ tempKC = FALSE
    /\ verifyKC = FALSE
    /\ searchList = << LOGIN_KEYCHAIN >>
    /\ p12 = NoFile
    /\ b64 = Absent
    /\ start = Clean
    /\ runs = 1

LoaderNext == LoadConfig

LoaderSpec == LoaderInit /\ [][LoaderNext]_vars

---------------------------------------------------------------------------
(* Vocabulary of the properties *)

\* the sub-command of an invocation, and whether it names a given argument
SubCommand(argv) == argv[2]
Mentions(argv, arg) == \E i \in 1..Len(argv) : argv[i] = arg

Invocations(sub) == { i \in 1..Len(log) : SubCommand(log[i]) = << sub >> }
Invoked(sub, keychain) ==
    \E i \in Invocations(sub) : Mentions(log[i], keychain)
ExportCount == Cardinality(Invocations("export"))

DELETE_TEMP == << SECURITY, << "delete-keychain" >>, TEMP_KEYCHAIN >>
DELETE_VERIFY == << SECURITY, << "delete-keychain" >>, VERIFY_KEYCHAIN >>

\* the .env file has no line "<key>=..." (read off the file, not off env_vars)
DefinesKey(raw, key) ==
    LET line == Strip(raw, {SP}) IN
    Len(line) >= 2 /\ line[1] = key[1] /\ line[2] = EQ
KeyAbsent(key) ==
    ~envExists \/ \A i \in 1..Len(envFile) : ~DefinesKey(envFile[i], key)
RequiredKeyAbsent == KeyAbsent(KEY_HASH) \/ KeyAbsent(KEY_EXPORT_PASS)

ConfigMissing == Falsy(TARGET_HASH) \/ Falsy(EXPORT_PASS)

\* both export calls of lines 98-101 have returned
ExportStepDone == ExportCount > 0 /\ pc # "export2"

ImportAttempted == verify_result # -1

Stage ==
    CASE pc \in {"load", "check_config"} -> "Loading"
      [] pc \in {"clean_temp", "clean_p12", "create_temp", "set_temp",
                 "unlock_temp", "list_keychains"} -> "Preparing"
      [] pc \in {"export1", "export2", "check_p12"} -> "Exporting"
      [] pc \in {"clean_verify", "create_verify", "set_verify",
                 "import_verify", "delete_verify", "check_verify"} -> "Verifying"
      [] pc \in {"read_p12", "write_b64"} -> "Encoding"
      [] pc = "exit" -> IF exitStatus = 0 THEN "Done" ELSE "Failed"

NextStage ==
    [s \in {"Loading", "Preparing", "Exporting", "Verifying", "Encoding",
            "Done", "Failed"} |->
        CASE s = "Loading" -> "Preparing"
          [] s = "Preparing" -> "Exporting"
          [] s = "Exporting" -> "Verifying"
          [] s = "Verifying" -> "Encoding"
          [] s = "Encoding" -> "Done"
          [] OTHER -> s]

\* base64 decoding, written apart from B64Encode: Invalid for a text that is
\* no padded base64 text
Invalid == << -2 >>

SextetOf(c) ==
    IF \E i \in 1..64 : B64Alphabet[i] = c
    THEN (CHOOSE i \in 1..64 : B64Alphabet[i] = c) - 1
    ELSE -1

DecodeGroup(g) ==
    LET n == SextetOf(g[1]) * 262144 + SextetOf(g[2]) * 4096
             + (IF g[3] = B64Pad THEN 0 ELSE SextetOf(g[3])) * 64
             + (IF g[4] = B64Pad THEN 0 ELSE SextetOf(g[4]))
        all == << n \div 65536, (n \div 256) % 256, n % 256 >>
    IN  IF g[3] = B64Pad THEN SubSeq(all, 1, 1)
        ELSE IF g[4] = B64Pad THEN SubSeq(all, 1, 2)
        ELSE all

B64Valid(text) ==
    /\ Len(text) % 4 = 0
    /\ \A i \in 1..Len(text) :
          \/ SextetOf(text[i]) >= 0
          \/ /\ text[i] = B64Pad
             /\ i >= Len(text) - 1
             /\ i = Len(text) \/ text[Len(text)] = B64Pad

RECURSIVE DecodeGroups(_)
DecodeGroups(text) ==
    IF text = << >> THEN << >>
    ELSE DecodeGroup(SubSeq(text, 1, 4)) \o DecodeGroups(SubSeq(text, 5, Len(text)))

B64Decode(text) == IF B64Valid(text) THEN DecodeGroups(text) ELSE Invalid

---------------------------------------------------------------------------
(* Properties *)

\* C1: when APPLE_CERT_HASH or APPLE_CERT_EXPORT_PASS is absent from the .env
\* file, or the file is missing, the run never leaves the loader and the
\* configuration check, exits with status 1, has invoked no external command
\* and has left the keychains and the two output files as it found them.
C1_MissingConfigExitsUntouched ==
    RequiredKeyAbsent =>
        /\ pc \in {"load", "check_config", "exit"}
        /\ pc = "exit" => exitStatus = 1
        /\ log = << >>
        /\ Snapshot = start

\* a run with the hash set but the export password absent has exited, among
\* leftover keychains and files
C1_Witness ==
    /\ pc = "exit"
    /\ envExists
    /\ ~KeyAbsent(KEY_HASH)
    /\ KeyAbsent(KEY_EXPORT_PASS)
    /\ start = Leftover

\* C2: once both export calls have returned with the bundle absent or empty,
\* the run exits with status 1: no command on the verification keychain is
\* invoked and the base64 file is not written.
C2_EmptyExportStops ==
    (ExportStepDone /\ ~BundleUsable) =>
        /\ pc \in {"check_p12", "exit"}
        /\ pc = "exit" => exitStatus = 1
        /\ \A i \in 1..Len(log) : ~Mentions(log[i], VERIFY_KEYCHAIN)
        /\ b64 = start.b64

\* the export left an empty bundle and the run has exited
C2_Witness ==
    /\ pc = "exit"
    /\ ExportStepDone
    /\ p12 = << >>
    /\ start.b64 # Absent

\* C3 as stated: when the import returned non-zero, the process exits
\* non-zero and the verification keychain no longer exists at exit.
C3_Original ==
    (pc = "exit" /\ verify_result > 0) => (exitStatus # 0 /\ ~verifyKC)

\* C3 as amended: after the import attempt, whatever its status, the next
\* command is delete-keychain on the verification keychain, and nothing is
\* invoked after it; the keychain is gone when that command returned 0; and
\* a non-zero import status ends the run with status 1.
C3_CleanupAlwaysInvoked ==
    (ImportAttempted /\ pc \in {"check_verify", "read_p12", "write_b64", "exit"}) =>
        /\ Len(log) >= 2
        /\ log[Len(log)] = DELETE_VERIFY
        /\ log[Len(log) - 1] = verify_cmd
        /\ rc = 0 => ~verifyKC
        /\ (pc = "exit" /\ verify_result # 0) => exitStatus = 1

\* the import failed, the cleanup succeeded and the run has exited
C3_Witness ==
    /\ pc = "exit"
    /\ verify_result = 1
    /\ Invoked("create-keychain", VERIFY_KEYCHAIN)
    /\ rc = 0

\* C4 as stated: before the second run creates anything, the stale temporary
\* keychain, the stale verification keychain and both stale output files are
\* gone (the deletion commands having succeeded).
C4_Original ==
    (runs = 2 /\ pc = "create_temp" /\ rc # 1) =>
        (~tempKC /\ ~verifyKC /\ p12 = NoFile /\ b64 = Absent)

\* the conditions under which the code ends a run with status 0
RunSucceeds ==
    /\ ~ConfigMissing
    /\ TEMP_PASS # None
    /\ ExportStepDone /\ BundleUsable
    /\ verify_result = 0

\* C4 as amended: whether a run succeeds depends on its configuration, its
\* own export and its own import alone.  Before the temporary keychain is
\* created the stale bundle is removed and delete-keychain has been invoked
\* on a stale temporary keychain (which is gone when that returned 0), so
\* the export starts without a bundle; the stale verification keychain is
\* dealt with only at the start of the verification, before it is created
\* again; the stale base64 file is never removed, only overwritten by a run
\* that succeeds.
C4_RerunIgnoresLeftovers ==
    /\ pc = "create_temp" =>
          /\ p12 = NoFile
          /\ b64 = start.b64
          /\ verifyKC = start.verifyKC
          /\ log = IF start.tempKC THEN << DELETE_TEMP >> ELSE << >>
          /\ (start.tempKC /\ rc = 0) => ~tempKC
    /\ pc = "export1" => p12 = NoFile
    /\ pc = "create_verify" =>
          /\ start.verifyKC => log[Len(log)] = DELETE_VERIFY
          /\ (start.verifyKC /\ rc = 0) => ~verifyKC
    /\ pc = "exit" =>
          /\ exitStatus = 0 <=> RunSucceeds
          /\ exitStatus # 0 => b64 = start.b64

\* a second run, started among everything a first run can leave, is about to
\* create the temporary keychain
C4_Witness ==
    /\ runs = 2
    /\ pc = "create_temp"
    /\ start.tempKC /\ start.verifyKC
    /\ start.p12 # NoFile /\ start.b64 # Absent

\* C5: at the end of a run with status 0 the base64 file holds the base64
\* encoding of the bundle as it then is, and decoding it gives the bundle's
\* bytes back.
C5_Base64OfBundle ==
    (pc = "exit" /\ exitStatus = 0) =>
        /\ p12 # NoFile
        /\ b64 = B64Encode(p12)
        /\ B64Decode(b64) = p12

\* a successful run whose bundle needs padding
C5_Witness ==
    /\ pc = "exit"
    /\ exitStatus = 0
    /\ p12 # NoFile
    /\ Len(p12) = 2

\* a value wrapped in a matching pair of quotes, and the text the pair encloses
Wrapped(val) == Len(val) >= 2 /\ val[1] \in Quotes /\ val[Len(val)] = val[1]
Enclosed(val) == SubSeq(val, 2, Len(val) - 1)

\* C6 as stated: the value of a KEY=VALUE line that is wrapped in a matching
\* pair of quotes is stored with exactly that pair removed.
C6_Original ==
    pc # "load" =>
        LET line == Strip(envFile[1], {SP}) IN
        (line # << >> /\ Head(line) # HASHMARK /\ Matches(line)
            /\ Wrapped(MatchVal(line)))
        => Get(env_vars, MatchKey(line)) = Enclosed(MatchVal(line))

\* C7 as stated: a non-zero status of a command of the Preparing stage moves
\* the run to Failed, so that no later stage executes.
C7_Original == prepFailed => Stage \in {"Preparing", "Failed"}

\* C7 as amended: within a run the stage stays, advances to the next stage in
\* the order, or becomes Failed; it becomes Failed, with status 1, only from
\* Loading on a missing required key, from Exporting on an absent or empty
\* bundle, from Verifying at the check that follows the cleanup on a non-zero
\* import status, and from Preparing when run() raises on the absent
\* temporary keychain password.  A non-zero status of a Preparing command
\* does not move the run to Failed.
C7_StageStep ==
    runs' = runs =>
        /\ Stage' \in {Stage, NextStage[Stage], "Failed"}
        /\ (Stage = "Preparing" /\ log' # log) => Stage' # "Failed"
        /\ (Stage # "Failed" /\ Stage' = "Failed") =>
              /\ exitStatus' = 1
              /\ Stage = "Loading" => ConfigMissing
              /\ Stage = "Preparing" => (TEMP_PASS = None /\ log' = log)
              /\ Stage = "Exporting" => ~BundleUsable
              /\ Stage = "Verifying" => (pc = "check_verify" /\ verify_result # 0)
              /\ Stage # "Encoding"

C7_StageOrder == [][C7_StageStep]_vars

\* a run in which a Preparing command returned non-zero has ended with status 0
C7_Witness == prepFailed /\ Stage = "Done"

\* C8 as stated: the export command is invoked exactly once in a run that
\* reaches the Exporting stage.
C8_Original ==
    /\ ExportCount <= 1
    /\ pc = "check_p12" => ExportCount = 1

\* C9 as stated: with both required keys set and APPLE_TEMP_KEYCHAIN_PASS
\* absent, create-keychain and unlock-keychain are invoked and the run goes
\* on to the later stages.
C9_Original ==
    (pc = "exit" /\ ~ConfigMissing /\ TEMP_PASS = None) =>
        /\ Invoked("create-keychain", TEMP_KEYCHAIN)
        /\ Invoked("unlock-keychain", TEMP_KEYCHAIN)
        /\ ExportCount > 0

\* C10 as stated: a run ends with status 0 exactly when the configuration was
\* present, the export left a non-empty bundle, the import returned 0 and the
\* base64 file was written; every other run ends with status 1 for a missing
\* configuration, an absent or empty bundle, or a failed import.
C10_Original ==
    pc = "exit" =>
        /\ exitStatus = 0 <=>
              (~ConfigMissing /\ ExportStepDone /\ BundleUsable
                 /\ verify_result = 0 /\ b64 = B64Encode(content))
        /\ exitStatus # 0 =>
              /\ exitStatus = 1
              /\ \/ ConfigMissing
                 \/ ExportStepDone /\ ~BundleUsable
                 \/ verify_result > 0

===========================================================================
